---- MODULE Spec2Model ----
(***************************************************************************)
(* Model of the segregated-fits allocator of src/mm-segregated_fits.c.     *)
(*                                                                         *)
(* The heap is a word-addressed memory: mem maps the byte address of every *)
(* 8-byte word that holds a non-zero value to that value (the backing      *)
(* store is zeroed, so an absent address reads 0 = NULL).  Headers,        *)
(* footers, the lookup table and the prev/next links of free blocks all    *)
(* live in this memory, exactly where the C macros put them.               *)
(*                                                                         *)
(* A size_t is 64 bits wide.  A value x of type size_t is represented by   *)
(* the integer r with r = x (mod 2^64) and -2^63 <= r < 2^63, so the word  *)
(* 2^64 - 1 is the integer -1.  With this representative + and - are the   *)
(* integer operations (wrap-around at 2^64 is the crossing of 0), the mask *)
(* & ~7 rounds down to a multiple of 8, and the unsigned comparisons are   *)
(* ULt/ULe below.  No value of the model comes near 2^63.                  *)
(***************************************************************************)
EXTENDS Integers, FiniteSets, Sequences, TLC

NULL == 0

(* ---------------- model bounds ---------------- *)

\* capacity of the backing store handed out by mem_sbrk, in 8-byte words
MaxHeapWords == 160
\* the number of calls the driver issues
MaxCalls == 5
\* capacity of the large backing store, in 8-byte words: room for one block
\* of 2^25 bytes, not for two
LargeHeapWords == 6000000

(* ---------------- unsigned machine words ---------------- *)

\* a < b as size_t: a negative representative is a word >= 2^63
ULt(a, b) == IF (a < 0) = (b < 0) THEN a < b ELSE b < 0
ULe(a, b) == a = b \/ ULt(a, b)

(* ---------------- macros (lines 19-62) ---------------- *)

ALIGNMENT == 8
CLASSES == 20
LIMIT_COALESCE == 2
\* (((size) + (ALIGNMENT-1)) & ~0x7)
ALIGN(size) == (size + (ALIGNMENT - 1)) - ((size + (ALIGNMENT - 1)) % 8)

\* sizeof(void*) and sizeof(size_t) on the 64-bit build
ADDRESS_SIZE == 8
LOOKUP_TABLE_SIZE == CLASSES * ADDRESS_SIZE
HEADER_SIZE == 8
FOOTER_SIZE == 8
MAX_OVERHEAD == HEADER_SIZE + FOOTER_SIZE + 2 * ADDRESS_SIZE
HF_OVERHEAD == HEADER_SIZE + FOOTER_SIZE
MBS == ALIGN(MAX_OVERHEAD)

\* READ_DATA / READ_ADDR and WRITE_DATA / WRITE_ADDR on the memory m
READ(m, ptr) == IF ptr \in DOMAIN m THEN m[ptr] ELSE 0
WRITE(m, ptr, data) ==
  IF data = 0
    THEN [a \in DOMAIN m \ {ptr} |-> m[a]]
    ELSE [a \in DOMAIN m \cup {ptr} |-> IF a = ptr THEN data ELSE m[a]]

PACK(data, bit) == data + bit
GET_SIZE(m, p) == READ(m, p) - (READ(m, p) % 8)
BIT(m, p) == READ(m, p) % 2

HEADER(ptr) == ptr - HEADER_SIZE
FOOTER(m, ptr) == ptr + GET_SIZE(m, HEADER(ptr)) - HF_OVERHEAD
PREV(ptr) == ptr
NEXT(ptr) == ptr + ADDRESS_SIZE
LEFT(m, ptr) == ptr - GET_SIZE(m, ptr - HF_OVERHEAD)
RIGHT(m, ptr) == ptr + GET_SIZE(m, HEADER(ptr))

\* 1 << n
RECURSIVE Shl1(_)
Shl1(n) == IF n = 0 THEN 1 ELSE 2 * Shl1(n - 1)
GET_MAX_DIM(class) == Shl1(class + 6) - 1

\* the for loop of GET_CLASS: leaves ind = CLASSES when no value exceeds size
RECURSIVE GetClassLoop(_, _, _)
GetClassLoop(ind, value, size) ==
  IF ind < CLASSES
    THEN IF ULt(size, value) THEN ind ELSE GetClassLoop(ind + 1, value * 2, size)
    ELSE ind
GET_CLASS(size) == GetClassLoop(0, 64, size)

(* ---------------- the heap-extension primitive ---------------- *)

\* first address of the backing store (8-aligned, not NULL)
mem_start_brk == 8 * ALIGNMENT
mem_max_addr == mem_start_brk + 8 * MaxHeapWords

\* the allocator's globals and the memory, before mm_init; max is the end of
\* the backing store
Heap0 ==
  [mem |-> [a \in {} |-> 0], brk |-> mem_start_brk, max |-> mem_max_addr,
   lookup_table |-> NULL, first_block |-> NULL, end_heap |-> NULL]

\* the same over the large backing store
HeapLarge == [Heap0 EXCEPT !.max = mem_start_brk + 8 * LargeHeapWords]

\* mem_sbrk(incr): the old break, or NULL (what the callers test for) when
\* the store cannot grow; ok = FALSE is a refusal by the environment
mem_sbrk(h, incr, ok) ==
  IF incr < 0 \/ h.brk + incr > h.max \/ ~ok
    THEN [h |-> h, ret |-> NULL]
    ELSE [h |-> [h EXCEPT !.brk = h.brk + incr], ret |-> h.brk]

(* ---------------- free lists (lines 417-472) ---------------- *)

LOOKUP_TABLE(h, i) == h.lookup_table + ADDRESS_SIZE * i

\* put_on_front_of_class_list: LIFO insertion at the head of list class
put_on_front_of_class_list(h, class, ptr) ==
  IF class < 0 \/ class >= CLASSES THEN h
  ELSE
    LET class_addr == LOOKUP_TABLE(h, class)
        m0 == h.mem
        \* the list is empty: neither predecessor nor successor
        e1 == WRITE(m0, PREV(ptr), NULL)
        e2 == WRITE(e1, NEXT(ptr), NULL)
        \* otherwise the block goes before the first one of the list
        n1 == WRITE(m0, PREV(READ(m0, class_addr)), ptr)
        n2 == WRITE(n1, NEXT(ptr), READ(n1, class_addr))
        n3 == WRITE(n2, PREV(ptr), NULL)
        m  == IF READ(m0, class_addr) = NULL THEN e2 ELSE n3
    IN [h EXCEPT !.mem = WRITE(m, class_addr, ptr)]

\* mutant: the head slot is not updated when the first block is removed
remove_from_free_list_nohead(h, class, ptr) ==
  LET class_addr == LOOKUP_TABLE(h, class)
      m0 == h.mem
      m1 == IF READ(m0, PREV(ptr)) # NULL
              THEN WRITE(m0, NEXT(READ(m0, PREV(ptr))), READ(m0, NEXT(ptr)))
              ELSE m0
      m2 == IF READ(m1, NEXT(ptr)) # NULL
              THEN WRITE(m1, PREV(READ(m1, NEXT(ptr))), READ(m1, PREV(ptr)))
              ELSE m1
  IN IF READ(m0, class_addr) = NULL \/ ptr = NULL THEN h
     ELSE IF READ(m0, PREV(ptr)) = NULL /\ READ(m0, NEXT(ptr)) = NULL
       THEN [h EXCEPT !.mem = WRITE(m0, class_addr, NULL)]
       ELSE [h EXCEPT !.mem = m2]

\* remove_from_free_list: links the predecessor of ptr with its successor
remove_from_free_list(h, class, ptr) ==
  LET class_addr == LOOKUP_TABLE(h, class)
      m0 == h.mem
      m1 == IF READ(m0, PREV(ptr)) # NULL
              THEN WRITE(m0, NEXT(READ(m0, PREV(ptr))), READ(m0, NEXT(ptr)))
              ELSE WRITE(m0, class_addr, READ(m0, NEXT(ptr)))
      m2 == IF READ(m1, NEXT(ptr)) # NULL
              THEN WRITE(m1, PREV(READ(m1, NEXT(ptr))), READ(m1, PREV(ptr)))
              ELSE m1
  IN IF READ(m0, class_addr) = NULL \/ ptr = NULL THEN h
     ELSE IF READ(m0, PREV(ptr)) = NULL /\ READ(m0, NEXT(ptr)) = NULL
       THEN [h EXCEPT !.mem = WRITE(m0, class_addr, NULL)]
       ELSE [h EXCEPT !.mem = m2]

(* ---------------- placement search (lines 372-415, BEST_FIT) ---------------- *)

\* mutant: a block of exactly the requested size is not accepted
BetterFit_strict(m, size_req, rover, best) ==
  /\ ULt(size_req, GET_SIZE(m, HEADER(rover)))
  /\ (best = NULL \/ ULt(GET_SIZE(m, HEADER(rover)), GET_SIZE(m, HEADER(best))))

\* mutant: first fit, a later and smaller block does not replace best
BetterFit_first(m, size_req, rover, best) ==
  /\ ULe(size_req, GET_SIZE(m, HEADER(rover)))
  /\ best = NULL

\* the condition under which rover replaces best (line 399)
BetterFit(m, size_req, rover, best) ==
  /\ ULe(size_req, GET_SIZE(m, HEADER(rover)))
  /\ (best = NULL \/ ULt(GET_SIZE(m, HEADER(rover)), GET_SIZE(m, HEADER(best))))

\* the while(1) loop of the best-fit case
RECURSIVE BestFitLoop(_, _, _, _)
BestFitLoop(m, size_req, rover, best) ==
  LET best1 == IF BetterFit(m, size_req, rover, best) THEN rover ELSE best
  IN IF BetterFit(m, size_req, rover, best) /\ GET_SIZE(m, HEADER(best1)) = size_req
       THEN best1
     ELSE IF READ(m, NEXT(rover)) = NULL THEN best1
     ELSE BestFitLoop(m, size_req, READ(m, NEXT(rover)), best1)

\* mutant: only the head of the list is examined
search_free_list_headonly(h, class, size_req) ==
  IF class < 0 \/ class >= CLASSES THEN NULL
  ELSE IF READ(h.mem, LOOKUP_TABLE(h, class)) = NULL THEN NULL
  ELSE IF ULe(size_req, GET_SIZE(h.mem, HEADER(READ(h.mem, LOOKUP_TABLE(h, class)))))
    THEN READ(h.mem, LOOKUP_TABLE(h, class))
    ELSE NULL

search_free_list(h, class, size_req) ==
  IF class < 0 \/ class >= CLASSES THEN NULL
  ELSE IF READ(h.mem, LOOKUP_TABLE(h, class)) = NULL THEN NULL
  ELSE BestFitLoop(h.mem, size_req, READ(h.mem, LOOKUP_TABLE(h, class)), NULL)

(* ---------------- split (lines 297-328) ---------------- *)

\* mutant: end_heap is not moved to the remainder
SplitEndHeap_stale(end_heap, ptr, newblock) == end_heap

\* the last-block pointer after splitting ptr (lines 324-325)
SplitEndHeap(end_heap, ptr, newblock) ==
  IF end_heap = ptr THEN newblock ELSE end_heap

split(h, ptr, newsize) ==
  LET remaining_size == GET_SIZE(h.mem, HEADER(ptr)) - newsize
      old_class == GET_CLASS(GET_SIZE(h.mem, HEADER(ptr)))
      \* removing the block from the free list, if it was marked as free
      h1 == IF BIT(h.mem, HEADER(ptr)) = 0
              THEN remove_from_free_list(h, old_class, ptr) ELSE h
      m2 == WRITE(h1.mem, HEADER(ptr), PACK(newsize, 1))
      m3 == WRITE(m2, FOOTER(m2, ptr), PACK(newsize, 1))
      newblock == ptr + GET_SIZE(m3, HEADER(ptr))
      m4 == WRITE(m3, HEADER(newblock), PACK(remaining_size, 0))
      m5 == WRITE(m4, FOOTER(m4, newblock), PACK(remaining_size, 0))
      new_class == GET_CLASS(remaining_size)
      h6 == put_on_front_of_class_list([h1 EXCEPT !.mem = m5], new_class, newblock)
  IN [h6 EXCEPT !.end_heap = SplitEndHeap(h6.end_heap, ptr, newblock)]

(* ---------------- coalesce (lines 336-365) ---------------- *)

\* mutant: the in_use bit of the neighbour is not tested
Mergeable_anystate(m, nb) ==
  ULt(GET_MAX_DIM(LIMIT_COALESCE), GET_SIZE(m, HEADER(nb)))

\* mutant: the size of the neighbour is not tested
Mergeable_anysize(m, nb) == BIT(m, HEADER(nb)) = 0

\* a neighbour is merged when it is free and above the limit class
Mergeable(m, nb) ==
  /\ BIT(m, HEADER(nb)) = 0
  /\ ULt(GET_MAX_DIM(LIMIT_COALESCE), GET_SIZE(m, HEADER(nb)))

\* scanning free blocks to the right (lines 342-347)
RECURSIVE CoalesceRight(_, _, _)
CoalesceRight(h, iterator, total_size) ==
  IF iterator # h.end_heap /\ Mergeable(h.mem, RIGHT(h.mem, iterator))
    THEN LET r == RIGHT(h.mem, iterator)
         IN CoalesceRight(
              remove_from_free_list(h, GET_CLASS(GET_SIZE(h.mem, HEADER(r))), r),
              r, total_size + GET_SIZE(h.mem, HEADER(r)))
    ELSE [h |-> h, iterator |-> iterator, total_size |-> total_size]

\* scanning free blocks to the left (lines 350-355)
RECURSIVE CoalesceLeft(_, _, _)
CoalesceLeft(h, ptr, total_size) ==
  IF ptr # h.first_block /\ Mergeable(h.mem, LEFT(h.mem, ptr))
    THEN LET l == LEFT(h.mem, ptr)
         IN CoalesceLeft(
              remove_from_free_list(h, GET_CLASS(GET_SIZE(h.mem, HEADER(l))), l),
              l, total_size + GET_SIZE(h.mem, HEADER(l)))
    ELSE [h |-> h, ptr |-> ptr, total_size |-> total_size]

\* the last-block pointer after a merge (lines 361-362)
CoalesceEndHeap(end_heap, iterator, ptr) ==
  IF end_heap = iterator THEN ptr ELSE end_heap

\* mutant: the footer of the merged block is not rewritten
coalesce_nofooter(h, ptr) ==
  LET r  == CoalesceRight(h, ptr, GET_SIZE(h.mem, HEADER(ptr)))
      l  == CoalesceLeft(r.h, ptr, r.total_size)
      m1 == WRITE(l.h.mem, HEADER(l.ptr), PACK(l.total_size, 0))
  IN [h |-> [l.h EXCEPT !.mem = m1,
                        !.end_heap = CoalesceEndHeap(l.h.end_heap, r.iterator, l.ptr)],
      ret |-> l.ptr]

coalesce(h, ptr) ==
  LET r  == CoalesceRight(h, ptr, GET_SIZE(h.mem, HEADER(ptr)))
      l  == CoalesceLeft(r.h, ptr, r.total_size)
      m1 == WRITE(l.h.mem, HEADER(l.ptr), PACK(l.total_size, 0))
      m2 == WRITE(m1, FOOTER(m1, l.ptr), PACK(l.total_size, 0))
  IN [h |-> [l.h EXCEPT !.mem = m2,
                        !.end_heap = CoalesceEndHeap(l.h.end_heap, r.iterator, l.ptr)],
      ret |-> l.ptr]

(* ---------------- mm_init (lines 86-113) ---------------- *)

\* the for loop writing NULL into every slot of the lookup table
RECURSIVE InitTable(_, _, _)
InitTable(m, lookup_table, i) ==
  IF i < CLASSES
    THEN InitTable(WRITE(m, lookup_table + ADDRESS_SIZE * i, NULL), lookup_table, i + 1)
    ELSE m

mm_init(h, ok) ==
  LET padd == ALIGN(LOOKUP_TABLE_SIZE + HEADER_SIZE) - LOOKUP_TABLE_SIZE - HEADER_SIZE
      g    == mem_sbrk(h, padd + LOOKUP_TABLE_SIZE + MBS, ok)
      lookup_table == g.ret + padd
      m1 == InitTable(g.h.mem, lookup_table, 0)
      first_block == lookup_table + LOOKUP_TABLE_SIZE + HEADER_SIZE
      m2 == WRITE(m1, HEADER(first_block), PACK(MBS, 0))
      m3 == WRITE(m2, FOOTER(m2, first_block), PACK(MBS, 0))
      h4 == put_on_front_of_class_list(
              [g.h EXCEPT !.mem = m3, !.lookup_table = lookup_table,
                          !.first_block = first_block], 0, first_block)
  IN IF g.ret = NULL THEN [h |-> g.h, ret |-> -1]
     ELSE [h |-> [h4 EXCEPT !.end_heap = first_block], ret |-> 0]

(* ---------------- mm_malloc (lines 121-175) ---------------- *)

\* newsize of a request: ALIGN(size + HF_OVERHEAD), raised to MBS (lines 126, 132-133)
RequestSize(size) ==
  IF ULt(ALIGN(size + HF_OVERHEAD), MBS) THEN MBS ELSE ALIGN(size + HF_OVERHEAD)

\* the initial check on size (line 129)
NoRequest(size) == ULe(size, 0)

\* mutant: the comparison is inverted
UseWholeBlock_inverted(remaining_size) == ULt(MBS, remaining_size)

\* the remainder is too small to be a block of its own (line 144)
UseWholeBlock(remaining_size) == ULe(remaining_size, MBS)

\* mutant: a block claimed whole is left on its free list
Place_nounlink(h, class, ptr, newsize) ==
  LET remaining_size == GET_SIZE(h.mem, HEADER(ptr)) - newsize
      m1 == WRITE(h.mem, HEADER(ptr), PACK(GET_SIZE(h.mem, HEADER(ptr)), 1))
      m2 == WRITE(m1, FOOTER(m1, ptr), PACK(GET_SIZE(m1, HEADER(ptr)), 1))
  IN IF UseWholeBlock(remaining_size)
       THEN [h EXCEPT !.mem = m2]
       ELSE split(h, ptr, newsize)

\* a free block ptr of list class serves the request (lines 141-156)
Place(h, class, ptr, newsize) ==
  LET remaining_size == GET_SIZE(h.mem, HEADER(ptr)) - newsize
      m1 == WRITE(h.mem, HEADER(ptr), PACK(GET_SIZE(h.mem, HEADER(ptr)), 1))
      m2 == WRITE(m1, FOOTER(m1, ptr), PACK(GET_SIZE(m1, HEADER(ptr)), 1))
  IN IF UseWholeBlock(remaining_size)
       THEN remove_from_free_list([h EXCEPT !.mem = m2], class, ptr)
       ELSE split(h, ptr, newsize)

\* no free list holds a block: additional memory from mem_sbrk (lines 163-174)
Extend(h, newsize, ok) ==
  LET g   == mem_sbrk(h, newsize, ok)
      ptr == g.ret + HEADER_SIZE
      m1  == WRITE(g.h.mem, HEADER(ptr), PACK(newsize, 1))
      m2  == WRITE(m1, FOOTER(m1, ptr), PACK(newsize, 1))
  IN IF g.ret = NULL THEN [h |-> g.h, ret |-> NULL]
     ELSE [h |-> [g.h EXCEPT !.mem = m2, !.end_heap = ptr], ret |-> ptr]

\* the while (class < CLASSES) loop and what follows it
RECURSIVE MallocLoop(_, _, _, _)
MallocLoop(h, class, newsize, ok) ==
  IF class < CLASSES
    THEN LET ptr == search_free_list(h, class, newsize)
         IN IF ptr # NULL
              THEN [h |-> Place(h, class, ptr, newsize), ret |-> ptr]
              ELSE MallocLoop(h, class + 1, newsize, ok)
    ELSE Extend(h, newsize, ok)

mm_malloc(h, size, ok) ==
  IF NoRequest(size) THEN [h |-> h, ret |-> NULL]
  ELSE MallocLoop(h, GET_CLASS(RequestSize(size)), RequestSize(size), ok)

(* ---------------- mm_free (lines 182-203) ---------------- *)

\* mutant: the gate starts one class higher
AboveLimit_high(class) == class > LIMIT_COALESCE + 1

\* the class gate of coalescing (line 195)
AboveLimit(class) == class > LIMIT_COALESCE

mm_free(h, ptr) ==
  IF ptr = NULL THEN h
  ELSE
    LET m1 == WRITE(h.mem, HEADER(ptr), PACK(GET_SIZE(h.mem, HEADER(ptr)), 0))
        m2 == WRITE(m1, FOOTER(m1, ptr), PACK(GET_SIZE(m1, HEADER(ptr)), 0))
        h2 == [h EXCEPT !.mem = m2]
        class == GET_CLASS(GET_SIZE(m2, HEADER(ptr)))
        c  == coalesce(h2, ptr)
    IN IF AboveLimit(class)
         THEN put_on_front_of_class_list(
                c.h, GET_CLASS(GET_SIZE(c.h.mem, HEADER(c.ret))), c.ret)
         ELSE put_on_front_of_class_list(h2, class, ptr)

(* ---------------- mm_realloc (lines 211-290, 480-490) ---------------- *)

RECURSIVE simulate_right_coalesce(_, _, _, _)
\* total_size is the local of the C function, 0 on entry
simulate_right_coalesce(h, ptr, diff, total_size) ==
  IF ptr # h.end_heap /\ BIT(h.mem, HEADER(RIGHT(h.mem, ptr))) = 0
    THEN IF ULe(diff, total_size + GET_SIZE(h.mem, HEADER(RIGHT(h.mem, ptr))))
           THEN 1
           ELSE simulate_right_coalesce(h, RIGHT(h.mem, ptr), diff,
                  total_size + GET_SIZE(h.mem, HEADER(RIGHT(h.mem, ptr))))
    ELSE 0

\* the absorbing loop of lines 242-250
RECURSIVE AbsorbRight(_, _, _, _, _)
AbsorbRight(h, iterator, last, total_size, diff) ==
  IF iterator # h.end_heap /\ BIT(h.mem, HEADER(RIGHT(h.mem, iterator))) = 0
    THEN LET r  == RIGHT(h.mem, iterator)
             t  == total_size + GET_SIZE(h.mem, HEADER(r))
             h1 == remove_from_free_list(h, GET_CLASS(GET_SIZE(h.mem, HEADER(r))), r)
         IN IF ULe(diff, t)
              THEN [h |-> h1, last |-> r, total_size |-> t]
              ELSE AbsorbRight(h1, r, r, t, diff)
    ELSE [h |-> h, last |-> last, total_size |-> total_size]

\* mutant: the block grows by diff, not by the sizes of the absorbed blocks
GrowInPlace_exact(h, ptr, block_size, diff) ==
  LET a  == AbsorbRight(h, ptr, ptr, 0, diff)
      m1 == WRITE(a.h.mem, HEADER(ptr), PACK(block_size + diff, 1))
      m2 == WRITE(m1, FOOTER(m1, ptr), PACK(block_size + diff, 1))
  IN [h |-> [a.h EXCEPT !.mem = m2,
                        !.end_heap = IF a.last = a.h.end_heap THEN ptr ELSE a.h.end_heap],
      ret |-> ptr]

\* growth in place (lines 237-259)
GrowInPlace(h, ptr, block_size, diff) ==
  LET a  == AbsorbRight(h, ptr, ptr, 0, diff)
      m1 == WRITE(a.h.mem, HEADER(ptr), PACK(block_size + a.total_size, 1))
      m2 == WRITE(m1, FOOTER(m1, ptr), PACK(block_size + a.total_size, 1))
  IN [h |-> [a.h EXCEPT !.mem = m2,
                        !.end_heap = IF a.last = a.h.end_heap THEN ptr ELSE a.h.end_heap],
      ret |-> ptr]

\* memcpy(dst, src, n) on word memory; n is a multiple of 8
memcpy(m, dst, src, n) ==
  LET inDst(a) == dst <= a /\ a < dst + n
      D == {a \in DOMAIN m : ~inDst(a)}
             \cup {dst + (a - src) : a \in {b \in DOMAIN m : src <= b /\ b < src + n}}
  IN [a \in D |-> IF inDst(a) THEN m[src + (a - dst)] ELSE m[a]]

\* the size handed to mm_malloc by the fallback (line 266)
FallbackRequest(newsize) == newsize

\* mutant: the payload is copied after the original has been freed
MoveBlock_copylate(h, ptr, block_size, newsize, ok) ==
  LET n  == mm_malloc(h, FallbackRequest(newsize), ok)
      f  == mm_free(n.h, ptr)
  IN IF n.ret = NULL THEN [h |-> n.h, ret |-> NULL]
     ELSE [h |-> [f EXCEPT !.mem = memcpy(f.mem, n.ret, ptr, block_size - HF_OVERHEAD)],
           ret |-> n.ret]

\* mutant: the original is freed although mm_malloc returned NULL
MoveBlock_freeonfail(h, ptr, block_size, newsize, ok) ==
  LET n  == mm_malloc(h, FallbackRequest(newsize), ok)
      m1 == memcpy(n.h.mem, n.ret, ptr, block_size - HF_OVERHEAD)
  IN IF n.ret = NULL THEN [h |-> mm_free(n.h, ptr), ret |-> NULL]
     ELSE [h |-> mm_free([n.h EXCEPT !.mem = m1], ptr), ret |-> n.ret]

\* copy + free once mm_malloc has returned n.ret, leaving the heap n.h
\* (lines 267-273)
CopyAndFree(n, ptr, block_size) ==
  IF n.ret = NULL THEN [h |-> n.h, ret |-> NULL]
  ELSE [h |-> mm_free([n.h EXCEPT !.mem =
                         memcpy(n.h.mem, n.ret, ptr, block_size - HF_OVERHEAD)], ptr),
        ret |-> n.ret]

\* allocate + copy + free (lines 264-273)
MoveBlock(h, ptr, block_size, newsize, ok) ==
  CopyAndFree(mm_malloc(h, FallbackRequest(newsize), ok), ptr, block_size)

\* mutant: a resize to 0 returns NULL after freeing
FreeAndReturn_null(h, ptr) == [h |-> mm_free(h, ptr), ret |-> NULL]

\* size == 0: mm_free(ptr), and the old pointer is returned (lines 216-219)
FreeAndReturn(h, ptr) == [h |-> mm_free(h, ptr), ret |-> ptr]

\* mutant: the block is split whatever the saved bytes
KeepBlock_never(diff) == FALSE

\* the saved bytes are too few to make a block (line 279)
KeepBlock(diff) == ULe(diff, MBS)

mm_realloc(h, ptr, size, ok) ==
  IF ptr = NULL /\ ULt(0, size) THEN mm_malloc(h, size, ok)
  ELSE IF size = 0 THEN FreeAndReturn(h, ptr)
  ELSE IF ptr # NULL /\ ULt(0, size) THEN
    LET block_size == GET_SIZE(h.mem, HEADER(ptr))
        newsize == RequestSize(size)
    IN IF newsize = block_size THEN [h |-> h, ret |-> ptr]
       ELSE IF ULt(block_size, newsize) THEN
         IF simulate_right_coalesce(h, ptr, newsize - block_size, 0) = 1
           THEN GrowInPlace(h, ptr, block_size, newsize - block_size)
           ELSE MoveBlock(h, ptr, block_size, newsize, ok)
       ELSE IF KeepBlock(block_size - newsize) THEN [h |-> h, ret |-> ptr]
       ELSE [h |-> split(h, ptr, newsize), ret |-> ptr]
  ELSE [h |-> h, ret |-> NULL]

(* ---------------- mm_check (lines 497-524) ---------------- *)

\* first loop: the pairs of adjacent blocks reported as having escaped coalescing
RECURSIVE CheckCoalesce(_, _)
CheckCoalesce(h, ptr) ==
  IF ptr # h.end_heap
    THEN (IF /\ BIT(h.mem, HEADER(ptr)) = 0
             /\ ULt(GET_MAX_DIM(LIMIT_COALESCE), GET_SIZE(h.mem, HEADER(ptr)))
             /\ BIT(h.mem, HEADER(RIGHT(h.mem, ptr))) = 0
             /\ ULt(GET_MAX_DIM(LIMIT_COALESCE), GET_SIZE(h.mem, HEADER(RIGHT(h.mem, ptr))))
            THEN {<<ptr, RIGHT(h.mem, ptr)>>} ELSE {})
         \cup CheckCoalesce(h, RIGHT(h.mem, ptr))
    ELSE {}

(* ---------------- the driver: a trace of calls ---------------- *)

\* request sizes of the driver
Sizes == {0, 8, 300}
\* negative requests as they reach mm_malloc: the words 2^64-1 and 2^64-24
WrappedSizes == {-1, -24}

VARIABLES
  heap,   \* the allocator: memory, break and the three globals
  live,   \* the driver's pointers: payload address -> size last requested for it
  ncalls  \* the number of calls issued so far

vars == <<heap, live, ncalls>>

\* the number of payload words the caller may use for a request of size bytes
UserWords(size) == IF size > 0 THEN (size + 7) \div 8 ELSE 0

\* the pattern the driver stores in the payload word at address a
Stamp(a) == a + 1

Init ==
  /\ heap = mm_init(Heap0, TRUE).h
  /\ live = [p \in {} |-> 0]
  /\ ncalls = 0

Drop(f, p) == [q \in DOMAIN f \ {p} |-> f[q]]
Put(f, p, v) == [q \in DOMAIN f \cup {p} |-> IF q = p THEN v ELSE f[q]]

\* the caller fills the n payload words it asked for
Fill(m, ptr, n) ==
  LET W == {ptr + 8 * k : k \in 0 .. (n - 1)}
  IN [a \in DOMAIN m \cup W |-> IF a \in W THEN Stamp(a) ELSE m[a]]

\* p = mm_malloc(size), and the caller fills the payload it asked for
Malloc(size, ok) ==
  /\ ncalls < MaxCalls
  /\ ncalls' = ncalls + 1
  /\ \E r \in {mm_malloc(heap, size, ok)} :
       /\ heap' = IF r.ret = NULL THEN r.h
                  ELSE [r.h EXCEPT !.mem = Fill(r.h.mem, r.ret, UserWords(size))]
       /\ live' = IF r.ret = NULL THEN live ELSE Put(live, r.ret, size)

Free(ptr) ==
  /\ ncalls < MaxCalls
  /\ ncalls' = ncalls + 1
  /\ heap' = mm_free(heap, ptr)
  /\ live' = Drop(live, ptr)

\* q = mm_realloc(ptr, size)
Realloc(ptr, size, ok) ==
  /\ ncalls < MaxCalls
  /\ ncalls' = ncalls + 1
  /\ \E r \in {mm_realloc(heap, ptr, size, ok)} :
       /\ heap' = r.h
       /\ live' = IF size = 0 THEN Drop(live, ptr)
                  ELSE IF r.ret = NULL THEN live
                  ELSE Put(Drop(live, ptr), r.ret, size)

Next ==
  \/ \E size \in Sizes, ok \in BOOLEAN : Malloc(size, ok)
  \/ \E ptr \in DOMAIN live \cup {NULL} : Free(ptr)
  \/ \E ptr \in DOMAIN live \cup {NULL}, size \in Sizes, ok \in BOOLEAN :
       Realloc(ptr, size, ok)

Spec == Init /\ [][Next]_vars

\* the same driver, which also passes negative sizes to mm_malloc
NextWrap ==
  \/ Next
  \/ \E size \in WrappedSizes, ok \in BOOLEAN : Malloc(size, ok)

SpecWrap == Init /\ [][NextWrap]_vars

\* request sizes of the driver on the large backing store: 8 bytes, and the
\* payload of a block of 64 * 2^19 = 2^25 bytes
LargeSizes == {8, 33554416}

InitLarge ==
  /\ heap = mm_init(HeapLarge, TRUE).h
  /\ live = [p \in {} |-> 0]
  /\ ncalls = 0

\* p = mm_malloc(size); the caller leaves the payload as it is
MallocLarge(size, ok) ==
  /\ ncalls < MaxCalls
  /\ ncalls' = ncalls + 1
  /\ \E r \in {mm_malloc(heap, size, ok)} :
       /\ heap' = r.h
       /\ live' = IF r.ret = NULL THEN live ELSE Put(live, r.ret, size)

NextLarge ==
  \/ \E size \in LargeSizes, ok \in BOOLEAN : MallocLarge(size, ok)
  \/ \E ptr \in DOMAIN live \cup {NULL} : Free(ptr)

\* the allocator on the large backing store, driven by mm_malloc and mm_free
SpecLarge == InitLarge /\ [][NextLarge]_vars

(* ---------------- reading the heap ---------------- *)

\* the payload addresses met walking from ptr by each block's size, up to the
\* break; the walk stops at a header that cannot be a block's
RECURSIVE WalkFrom(_, _)
WalkFrom(h, ptr) ==
  IF HEADER(ptr) >= h.brk \/ GET_SIZE(h.mem, HEADER(ptr)) < MBS THEN << >>
  ELSE <<ptr>> \o WalkFrom(h, RIGHT(h.mem, ptr))

Walk(h) == WalkFrom(h, h.first_block)
Blocks(h) == {Walk(h)[i] : i \in 1 .. Len(Walk(h))}
SizeOf(h, ptr) == GET_SIZE(h.mem, HEADER(ptr))
InUse(h, ptr) == BIT(h.mem, HEADER(ptr)) = 1

\* the chain of next links from ptr, cut after fuel blocks
RECURSIVE Chain(_, _, _)
Chain(h, ptr, fuel) ==
  IF ptr = NULL \/ fuel = 0 THEN << >>
  ELSE <<ptr>> \o Chain(h, READ(h.mem, NEXT(ptr)), fuel - 1)

\* list c as the sequence of its blocks, head first
FreeList(h, c) == Chain(h, READ(h.mem, LOOKUP_TABLE(h, c)), MaxHeapWords)
ListSet(h, c) == {FreeList(h, c)[i] : i \in 1 .. Len(FreeList(h, c))}

\* the blocks of each kind
UsedBlocks(h) == {b \in Blocks(h) : InUse(h, b)}
FreeBlocks(h) == {b \in Blocks(h) : ~InUse(h, b)}
\* a free block above the coalescing limit
BigFree(h, b) == ~InUse(h, b) /\ SizeOf(h, b) > 255

(* ---------------- C1 ---------------- *)

C4_NoAdjacentBigFree ==
  /\ \A i \in 1 .. (Len(Walk(heap)) - 1) :
       ~(BigFree(heap, Walk(heap)[i]) /\ BigFree(heap, Walk(heap)[i + 1]))
  /\ CheckCoalesce(heap, heap.first_block) = {}

(* ---------------- C5 ---------------- *)

Need(s) == IF ((s + 16 + 7) \div 8) * 8 < 32 THEN 32 ELSE ((s + 16 + 7) \div 8) * 8
Positive == {s \in Sizes : s > 0}
\* the number of payload words of block b
PayloadWords(h, b) == (SizeOf(h, b) - 16) \div 8

(* ---------------- C3 ---------------- *)

\* C3: when resize(p, n) returns a non-none address p', every payload word of
\* p that starts below n (so the first original_payload bytes, for every
\* original_payload <= n) is found unchanged at p', whether the block grew in
\* place, was kept, was split or was moved.
C3_PayloadPreserved ==
  \A p \in DOMAIN live, n \in Positive, ok \in BOOLEAN :
    LET r == mm_realloc(heap, p, n, ok)
    IN r.ret # NULL =>
         \A k \in 0 .. (PayloadWords(heap, p) - 1) :
           8 * k < n => READ(r.h.mem, r.ret + 8 * k) = READ(heap.mem, p + 8 * k)

\* a block filled by the caller that a resize moves to another address
C3_Witness ==
  \E p \in DOMAIN live, n \in Positive :
    /\ n >= live[p] /\ live[p] > 0
    /\ \A k \in 0 .. (UserWords(live[p]) - 1) : READ(heap.mem, p + 8 * k) = Stamp(p + 8 * k)
    /\ mm_realloc(heap, p, n, TRUE).ret \notin {NULL, p}

(* ---------------- C6 ---------------- *)

\* C6: for s > 0 a non-none result of allocate(s) is the 8-aligned payload
\* address of a block of the heap with in_use = 1 in header and footer, whose
\* size is a multiple of 8 with need <= size <= need + MIN_BLOCK_SIZE, so that
\* the payload holds at least s bytes.
C6_AllocatedBlock ==
  \A s \in Positive, ok \in BOOLEAN :
    LET r == mm_malloc(heap, s, ok)
    IN r.ret # NULL =>
         /\ r.ret % 8 = 0
         /\ r.ret \in Blocks(r.h)
         /\ READ(r.h.mem, r.ret - 8) % 2 = 1
         /\ READ(r.h.mem, r.ret + SizeOf(r.h, r.ret) - 16) = READ(r.h.mem, r.ret - 8)
         /\ SizeOf(r.h, r.ret) % 8 = 0
         /\ Need(s) <= SizeOf(r.h, r.ret)
         /\ SizeOf(r.h, r.ret) <= Need(s) + 32
         /\ SizeOf(r.h, r.ret) - 16 >= s

\* a request served by a whole free block that is larger than need
C6_Witness ==
  \E s \in Positive :
    LET r == mm_malloc(heap, s, TRUE)
    IN /\ r.ret # NULL /\ r.h.brk = heap.brk
       /\ SizeOf(r.h, r.ret) = SizeOf(heap, r.ret)
       /\ SizeOf(r.h, r.ret) > Need(s)

(* ---------------- C7 ---------------- *)

\* C7: for every request s <= 0 (a negative s being the word s mod 2^64)
\* allocate(s) returns none and changes nothing: no block, no list, no growth.
C7_NonPositiveRejected ==
  \A s \in {0} \cup WrappedSizes, ok \in BOOLEAN :
    mm_malloc(heap, s, ok) = [h |-> heap, ret |-> NULL]

(* ---------------- C8 ---------------- *)

\* C8: when the grow primitive fails, allocate returns none and resize (on its
\* allocate + copy + free path) returns none, and memory, break and globals
\* are exactly as before; the block passed to resize is still used.
C8_ExhaustionNoChange ==
  /\ \A s \in Positive :
       LET g == mm_malloc(heap, s, TRUE)
           f == mm_malloc(heap, s, FALSE)
       IN /\ g.ret = NULL => g.h = heap
          /\ f.ret = NULL => f.h = heap
          /\ (g.ret = NULL \/ g.h.brk # heap.brk) => f.ret = NULL
  /\ \A p \in DOMAIN live, s \in Positive :
       LET g == mm_realloc(heap, p, s, TRUE)
           f == mm_realloc(heap, p, s, FALSE)
       IN /\ g.ret = NULL => (g.h = heap /\ InUse(g.h, p))
          /\ f.ret = NULL => (f.h = heap /\ InUse(f.h, p))
          /\ (g.ret = NULL \/ g.h.brk # heap.brk) => f.ret = NULL

\* the store is exhausted for an allocate and for the fallback of a resize
C8_Witness ==
  /\ \E s \in Positive : mm_malloc(heap, s, TRUE).ret = NULL
  /\ \E p \in DOMAIN live, s \in Positive : mm_realloc(heap, p, s, TRUE).ret = NULL

(* ---------------- C9 ---------------- *)

\* the blocks below lim, in address order, with size and in_use flag
Layout(h, lim) ==
  LET Below(b) == b < lim
      W == SelectSeq(Walk(h), Below)
  IN [i \in 1 .. Len(W) |-> <<W[i], SizeOf(h, W[i]), InUse(h, W[i])>>]

\* list c restricted to the blocks below lim, head first
ListBelow(h, c, lim) ==
  LET Below(b) == b < lim
  IN SelectSeq(FreeList(h, c), Below)

C10_ResizeRouting ==
  /\ \A s \in Positive, ok \in BOOLEAN :
       mm_realloc(heap, NULL, s, ok) = mm_malloc(heap, s, ok)
  /\ \A p \in DOMAIN live \cup {NULL}, ok \in BOOLEAN :
       mm_realloc(heap, p, 0, ok) = [h |-> mm_free(heap, p), ret |-> p]
  /\ \A p \in DOMAIN live, s \in Positive, ok \in BOOLEAN :
       Need(s) = SizeOf(heap, p) => mm_realloc(heap, p, s, ok) = [h |-> heap, ret |-> p]

\* a held block whose size is the need of the request, beside a block that
\* resize(p, 0) frees and merges, and a free block that serves resize(none, s)
C10_Witness ==
  /\ \E p \in DOMAIN live, s \in Positive : Need(s) = SizeOf(heap, p)
  /\ \E p \in DOMAIN live :
       SizeOf(mm_realloc(heap, p, 0, TRUE).h, p) > SizeOf(heap, p)
  /\ \E s \in Positive :
       LET a == mm_realloc(heap, NULL, s, TRUE) IN a.ret # NULL /\ a.h.brk = heap.brk

(* ---------------- C11 ---------------- *)

\* the heap is the one mm_init leaves
Fresh == heap = mm_init(Heap0, TRUE).h
\* the calls of the split scenario: p = allocate(1024); free(p); allocate(16),
\* and one more allocate(16)
Scn1 == mm_malloc(heap, 1024, TRUE)
Scn2 == mm_free(Scn1.h, Scn1.ret)
Scn3 == mm_malloc(Scn2, 16, TRUE)
Scn4 == mm_malloc(Scn3.h, 16, TRUE)

\* C11 as stated: on the freshly initialised heap, after p = allocate(1024)
\* and free(p), allocate(16) returns a payload inside the free block that
\* holds p, and the rest of that block is a free remainder linked on the list
\* of its class.
C11_CarvedFromFreed ==
  Fresh =>
    /\ Scn3.ret # NULL
    /\ \E f \in FreeBlocks(Scn2) :
         /\ f <= Scn1.ret /\ Scn1.ret < f + SizeOf(Scn2, f)
         /\ f <= Scn3.ret /\ Scn3.ret < f + SizeOf(Scn2, f)
         /\ \E r \in FreeBlocks(Scn3.h) :
              /\ f < r /\ r < f + SizeOf(Scn2, f)
              /\ r \in ListSet(Scn3.h, GET_CLASS(SizeOf(Scn3.h, r)))

\* C11 amended: on the freshly initialised heap, after p = allocate(1024) and
\* free(p), allocate(16) is served whole by the minimum-size free block that
\* init created, and the freed block of 1040 bytes stays whole, alone on the
\* list of its class; the next allocate(16) is carved from the freed block:
\* it returns p, as a used block of 32 bytes, and the remainder of 1008 bytes
\* is free, the last block, and alone on the list of its class.
C11_ServedByInitialBlock ==
  Fresh =>
    /\ Scn1.ret # NULL /\ SizeOf(Scn1.h, Scn1.ret) = 1040
    /\ ~InUse(Scn2, Scn1.ret) /\ SizeOf(Scn2, Scn1.ret) = 1040
    /\ Scn3.ret = heap.first_block
    /\ InUse(Scn3.h, Scn3.ret) /\ SizeOf(Scn3.h, Scn3.ret) = MBS
    /\ Blocks(Scn3.h) = {heap.first_block, Scn1.ret}
    /\ ~InUse(Scn3.h, Scn1.ret) /\ SizeOf(Scn3.h, Scn1.ret) = 1040
    /\ FreeList(Scn3.h, GET_CLASS(1040)) = <<Scn1.ret>>
    /\ Scn4.ret = Scn1.ret
    /\ InUse(Scn4.h, Scn4.ret) /\ SizeOf(Scn4.h, Scn4.ret) = 32
    /\ ~InUse(Scn4.h, Scn4.ret + 32) /\ SizeOf(Scn4.h, Scn4.ret + 32) = 1008
    /\ FreeList(Scn4.h, GET_CLASS(1008)) = <<Scn4.ret + 32>>
    /\ FreeList(Scn4.h, GET_CLASS(1040)) = << >>
    /\ Scn4.h.end_heap = Scn4.ret + 32
    /\ Scn4.h.brk = Scn1.h.brk

\* the scenario runs on the fresh heap: every call of it succeeds, and the
\* small requests do not grow the heap
C11_Witness ==
  /\ Fresh
  /\ Scn1.ret # NULL /\ Scn1.h.brk = heap.brk + 1040
  /\ Scn3.ret # NULL /\ Scn4.ret # NULL
  /\ Scn4.h.brk = Scn1.h.brk
  /\ Cardinality(Blocks(Scn4.h)) = 3

(* ---------------- C12 ---------------- *)

\* the pointers a caller may pass: its live pointers and NULL
Pointers == DOMAIN live \cup {NULL}

\* block b of h has in g the header, the footer and every payload word it has
\* in h
SameBlock(h, g, b) ==
  /\ READ(g.mem, HEADER(b)) = READ(h.mem, HEADER(b))
  /\ READ(g.mem, FOOTER(h.mem, b)) = READ(h.mem, FOOTER(h.mem, b))
  /\ \A k \in 0 .. (PayloadWords(h, b) - 1) :
       READ(g.mem, b + 8 * k) = READ(h.mem, b + 8 * k)

FitExists(h, need) == \E f \in FreeBlocks(h) : SizeOf(h, f) >= need

Fitting(h, c, need) ==
  {i \in 1 .. Len(FreeList(h, c)) : SizeOf(h, FreeList(h, c)[i]) >= need}

\* C14: when allocate(s) is served from a free list, the block it takes is on
\* the list of the lowest class c >= class(need) that holds a block of at
\* least need bytes, it has the minimum size among the fitting blocks of that
\* list and is the one nearest the head among those of that size; hence no
\* free block of the heap with at least need bytes is smaller.
C14_BestFit ==
  \A s \in Positive, ok \in BOOLEAN :
    LET b == mm_malloc(heap, s, ok).ret
        c == GET_CLASS(SizeOf(heap, b))
        L == FreeList(heap, c)
    IN (b # NULL /\ b \in FreeBlocks(heap)) =>
         /\ c >= GET_CLASS(Need(s))
         /\ \A d \in GET_CLASS(Need(s)) .. (c - 1) : Fitting(heap, d, Need(s)) = {}
         /\ \E i \in Fitting(heap, c, Need(s)) :
              /\ L[i] = b
              /\ \A j \in Fitting(heap, c, Need(s)) :
                   /\ SizeOf(heap, b) <= SizeOf(heap, L[j])
                   /\ SizeOf(heap, L[j]) = SizeOf(heap, b) => i <= j
         /\ \A f \in FreeBlocks(heap) :
              SizeOf(heap, f) >= Need(s) => SizeOf(heap, b) <= SizeOf(heap, f)

\* a request is served by a block that is not the head of its list, although
\* the head is large enough: the head is larger
C14_Witness ==
  \E s \in Positive :
    LET b == mm_malloc(heap, s, TRUE).ret
        L == FreeList(heap, GET_CLASS(SizeOf(heap, b)))
    IN /\ b # NULL /\ b \in FreeBlocks(heap)
       /\ L[1] # b
       /\ SizeOf(heap, L[1]) > SizeOf(heap, b)
       /\ SizeOf(heap, b) >= Need(s)

(* ---------------- C15 ---------------- *)

\* the consecutive free blocks directly to the right of b, nearest first: the
\* run stops at the first used block or at the last block
RECURSIVE FreeRun(_, _)
FreeRun(h, b) ==
  IF b = h.end_heap \/ InUse(h, RIGHT(h.mem, b)) THEN << >>
  ELSE <<RIGHT(h.mem, b)>> \o FreeRun(h, RIGHT(h.mem, b))

\* the size of the first k blocks of the run right of b
RECURSIVE RunSize(_, _, _)
RunSize(h, b, k) ==
  IF k = 0 THEN 0 ELSE SizeOf(h, FreeRun(h, b)[k]) + RunSize(h, b, k - 1)

\* the length of the shortest prefix of the run of at least diff bytes
Shortest(h, b, diff) ==
  CHOOSE k \in 1 .. Len(FreeRun(h, b)) :
    /\ RunSize(h, b, k) >= diff
    /\ \A j \in 1 .. (k - 1) : RunSize(h, b, j) < diff

\* list c of h without the first k blocks of the run right of b
ListWithout(h, c, b, k) ==
  LET Kept(f) == \A i \in 1 .. k : FreeRun(h, b)[i] # f
  IN SelectSeq(FreeList(h, c), Kept)

\* C15: for a used block p of size old and a request with new > old, resize
\* returns p without allocating iff the free blocks directly to the right of
\* p sum to at least new - old; then exactly the shortest such prefix of them
\* is unlinked, p is one used block of old plus the whole size of the prefix,
\* and the last-block pointer is p when the prefix ended at the last block.
C15_GrowInPlace ==
  \A p \in DOMAIN live, s \in Positive, ok \in BOOLEAN :
    LET old == SizeOf(heap, p)
        r   == mm_realloc(heap, p, s, ok)
        n   == Len(FreeRun(heap, p))
        k   == Shortest(heap, p, Need(s) - old)
    IN Need(s) > old =>
         /\ r.ret = p <=> RunSize(heap, p, n) >= Need(s) - old
         /\ RunSize(heap, p, n) >= Need(s) - old =>
              /\ r.h.brk = heap.brk
              /\ UsedBlocks(r.h) = UsedBlocks(heap)
              /\ InUse(r.h, p)
              /\ SizeOf(r.h, p) = old + RunSize(heap, p, k)
              /\ \A c \in 0 .. (CLASSES - 1) :
                   FreeList(r.h, c) = ListWithout(heap, c, p, k)
              /\ r.h.end_heap =
                   IF FreeRun(heap, p)[k] = heap.end_heap THEN p ELSE heap.end_heap

\* a resize grows a block in place over two free neighbours whose sizes sum to
\* more than the bytes it lacks, up to the last block
C15_Witness ==
  \E p \in DOMAIN live, s \in Positive :
    /\ Need(s) > SizeOf(heap, p)
    /\ RunSize(heap, p, Len(FreeRun(heap, p))) > Need(s) - SizeOf(heap, p)
    /\ Shortest(heap, p, Need(s) - SizeOf(heap, p)) = 2
    /\ mm_realloc(heap, p, s, TRUE).ret = p
    /\ mm_realloc(heap, p, s, TRUE).h.end_heap = p

(* ---------------- C16 ---------------- *)

IndexOf(h, b) == CHOOSE i \in 1 .. Len(Walk(h)) : Walk(h)[i] = b

\* the first position of the maximal run of blocks that are free and above
\* 255 bytes ending just left of position i, and the last position of the one
\* starting just right of it
RunLo(h, i) ==
  CHOOSE j \in 1 .. i :
    /\ \A m \in j .. (i - 1) : BigFree(h, Walk(h)[m])
    /\ j > 1 => ~BigFree(h, Walk(h)[j - 1])
RunHi(h, i) ==
  CHOOSE j \in i .. Len(Walk(h)) :
    /\ \A m \in (i + 1) .. j : BigFree(h, Walk(h)[m])
    /\ j < Len(Walk(h)) => ~BigFree(h, Walk(h)[j + 1])

\* the sizes of the blocks at positions lo .. hi of the walk, summed
RECURSIVE SumSizes(_, _, _)
SumSizes(h, lo, hi) ==
  IF lo > hi THEN 0 ELSE SizeOf(h, Walk(h)[lo]) + SumSizes(h, lo + 1, hi)

\* list c of h without the blocks at positions lo .. hi of the walk
ListOutside(h, c, lo, hi) ==
  LET Kept(f) == \A m \in lo .. hi : Walk(h)[m] # f
  IN SelectSeq(FreeList(h, c), Kept)

BlockSizes == {8 * k : k \in 0 .. MaxHeapWords}

C19_ClassTotal ==
  /\ \A b \in Blocks(heap) :
       /\ GET_CLASS(SizeOf(heap, b)) \in 0 .. (CLASSES - 1)
       /\ SizeOf(heap, b) > GET_MAX_DIM(CLASSES - 2) =>
            GET_CLASS(SizeOf(heap, b)) = CLASSES - 1
  /\ \A f \in FreeBlocks(heap) :
       \E c \in 0 .. (CLASSES - 1) : f \in ListSet(heap, c)

(* ---------------- C20 ---------------- *)

\* C20: when mm_realloc(p, n) moves the block (allocate + copy + free) and the
\* fresh block is obtained by growing the heap, the heap grows by exactly
\* Need(n) bytes and the returned block has total size Need(n).
C20_FallbackNeed ==
  \A p \in DOMAIN live : \A s \in Positive :
    \A r \in {mm_realloc(heap, p, s, TRUE)} :
      (r.ret # NULL /\ r.ret # p /\ r.h.brk > heap.brk) =>
        /\ r.h.brk = heap.brk + Need(s)
        /\ SizeOf(r.h, r.ret) = Need(s)

====
